---- MODULE Spec2Model ----
(***************************************************************************)
(* Model of the pod-spec ingestion of cluster-capacity:                    *)
(* ClusterCapacityConfig.ParseAPISpec and downloadOrRead in                *)
(* cmd/cluster-capacity/app/options/options.go.                            *)
(*                                                                         *)
(* A source identifier is a sequence of tokens, the scheme first when it   *)
(* has one (<<"http://", "h/pod">>), so that the empty string is <<>> and  *)
(* strings.HasPrefix is a test of the first token.                         *)
(***************************************************************************)
EXTENDS Integers, Sequences, FiniteSets, TLC

VARIABLES
    Options,            \* s.Options: PodSpecFile, PodListSpecFile
    schedulerName,      \* the argument of ParseAPISpec
    sPod,               \* s.Pod
    pc,                 \* position of the call
    spec,               \* the io.Reader returned by downloadOrRead
    body,               \* response.Body: "none", "open", "closed"
    file,               \* the *os.File of os.Open: "none", "open", "closed"
    response,           \* the *http.Response of http.Get
    versionedPodList,   \* versionedPodList.Items
    versionedPod,       \* the loop variable of the range loop (a copy)
    internalPod,        \* the converted pod
    idx,                \* position of the range loop in Items
    err,                \* the error ParseAPISpec returns
    podBefore,          \* history: s.Pod when the call started
    decoded,            \* history: Items as the decoder produced them
    resolved,           \* history: identifiers passed to downloadOrRead
    fetches,            \* history: number of http.Get calls
    trace               \* history: stages executed, in order

vars == <<Options, schedulerName, sPod, pc, spec, body, file, response,
          versionedPodList, versionedPod, internalPod, idx, err, podBefore,
          decoded, resolved, fetches, trace>>

----------------------------------------------------------------------------
(* Bounds *)

MaxPods == 3
MaxContainers == 2

----------------------------------------------------------------------------
(* Constants of the program and of the libraries it calls *)

StatusOK == 200
DNSClusterFirst == "ClusterFirst"
RestartPolicyAlways == "Always"
TerminationMessageFallbackToLogsOnError == "FallbackToLogsOnError"

DNSPolicies == {"ClusterFirstWithHostNet", DNSClusterFirst, "Default", "None"}
RestartPolicies == {RestartPolicyAlways, "OnFailure", "Never"}
TerminationMessagePolicies == {"File", TerminationMessageFallbackToLogsOnError}

----------------------------------------------------------------------------
(* Values *)

NoPod == [Name |-> "", Namespace |-> "", SchedulerName |-> "", DNSPolicy |-> "",
          RestartPolicy |-> "", Containers |-> <<>>, Convertible |-> TRUE]

NoInternalPod ==
    [Name |-> "", Namespace |-> "", SchedulerName |-> "", DNSPolicy |-> "",
     RestartPolicy |-> "", Containers |-> <<>>]

NilPodList == [isNil |-> TRUE, Items |-> <<>>]

NoResponse == [got |-> FALSE, StatusCode |-> 0]

NilError == [kind |-> "nil", code |-> 0, url |-> <<>>, errStrs |-> <<>>]

GetError(url) == [kind |-> "get", code |-> 0, url |-> url, errStrs |-> <<>>]

StatusError(url, code) ==
    [kind |-> "status", code |-> code, url |-> url, errStrs |-> <<>>]

OpenError == [kind |-> "open", code |-> 0, url |-> <<>>, errStrs |-> <<>>]

DecodeError == [kind |-> "decode", code |-> 0, url |-> <<>>, errStrs |-> <<>>]

ConvertError == [kind |-> "convert", code |-> 0, url |-> <<>>, errStrs |-> <<>>]

InvalidPodError(errStrs) ==
    [kind |-> "invalid", code |-> 0, url |-> <<>>, errStrs |-> errStrs]

Event(stage, i) == [stage |-> stage, i |-> i]

----------------------------------------------------------------------------
(* Inputs *)

SingleIds == {<<>>, <<"http://", "h/pod">>, <<"pod.yaml">>}
ListIds == {<<>>, <<"https://", "h/list">>, <<"list.yaml">>}
SchedulerNames == {"cluster-capacity-scheduler", "sched2"}
StatusCodes == {StatusOK, 404, 500}
Names == {"a", "b", "c"}

Container(policy) == [TerminationMessagePolicy |-> policy]

\* Pods a document can hold: nothing but the name set; every field set;
\* an unknown restart policy; no container and an unknown DNS policy; some
\* fields set and some not; a pod the converter rejects.
Templates ==
    { [NoPod EXCEPT !.Containers = <<Container("")>>],
      [NoPod EXCEPT !.Namespace = "ns1", !.SchedulerName = "other",
                    !.DNSPolicy = "Default", !.RestartPolicy = "Never",
                    !.Containers = <<Container("File")>>],
      [NoPod EXCEPT !.RestartPolicy = "Sometimes",
                    !.Containers = <<Container("")>>],
      [NoPod EXCEPT !.DNSPolicy = "Bogus"],
      [NoPod EXCEPT !.Namespace = "ns1",
                    !.Containers = <<Container("File"), Container("")>>],
      [NoPod EXCEPT !.Containers = <<Container("")>>, !.Convertible = FALSE] }

DecodablePods == {[t EXCEPT !.Name = n] : t \in Templates, n \in Names}

SeqsUpTo(S, n) == UNION {[1..k -> S] : k \in 0..n}

DecodableLists == SeqsUpTo(DecodablePods, MaxPods)

\* s.Pod when the call starts: nil on a new config, or the list that an
\* earlier call on the same config stored (here, from a document of one pod
\* with every field set).
EarlierPodList ==
    [isNil |-> FALSE,
     Items |-> <<[NoPod EXCEPT !.Name = "z", !.Namespace = "ns1",
                               !.SchedulerName = "other",
                               !.DNSPolicy = "Default",
                               !.RestartPolicy = "Never",
                               !.Containers = <<Container("File")>>]>>]

----------------------------------------------------------------------------
(* Helpers of the code *)

HasPrefix(id, prefix) == Len(id) > 0 /\ id[1] = prefix

IsURL(urlOrFile) ==
    HasPrefix(urlOrFile, "http://") \/ HasPrefix(urlOrFile, "https://")

SingleMode(opts) == Len(opts.PodSpecFile) > 0

SourceIdListFirst(opts) ==
    IF Len(opts.PodListSpecFile) > 0 THEN opts.PodListSpecFile
    ELSE opts.PodSpecFile

SourceId(opts) ==
    IF Len(opts.PodSpecFile) > 0 THEN opts.PodSpecFile ELSE opts.PodListSpecFile

StatusAcceptedBelow500(code) == code < 500

StatusAccepted(code) == code = StatusOK

\* filepath.Abs("") is the working directory: it opens, and cannot be read.
IsDirectory(urlOrFile) == urlOrFile = <<>>

DefaultContainers(cs) ==
    [i \in 1..Len(cs) |->
        IF cs[i].TerminationMessagePolicy = ""
        THEN [cs[i] EXCEPT !.TerminationMessagePolicy =
                               TerminationMessageFallbackToLogsOnError]
        ELSE cs[i]]

DefaultPodOverwriting(pod, name) ==
    [pod EXCEPT
        !.Namespace = "default",
        !.SchedulerName = IF pod.SchedulerName = "" THEN name
                          ELSE pod.SchedulerName,
        !.DNSPolicy = IF pod.DNSPolicy = "" THEN DNSClusterFirst
                      ELSE pod.DNSPolicy,
        !.RestartPolicy = IF pod.RestartPolicy = "" THEN RestartPolicyAlways
                          ELSE pod.RestartPolicy,
        !.Containers = DefaultContainers(pod.Containers)]

\* The loop variable after lines 112-134.
DefaultPod(pod, name) ==
    [pod EXCEPT
        !.Namespace = IF pod.Namespace = "" THEN "default" ELSE pod.Namespace,
        !.SchedulerName = IF pod.SchedulerName = "" THEN name
                          ELSE pod.SchedulerName,
        !.DNSPolicy = IF pod.DNSPolicy = "" THEN DNSClusterFirst
                      ELSE pod.DNSPolicy,
        !.RestartPolicy = IF pod.RestartPolicy = "" THEN RestartPolicyAlways
                          ELSE pod.RestartPolicy,
        !.Containers = DefaultContainers(pod.Containers)]

ItemsAfterDefaultFirstSlot(items, i, copy) ==
    [items EXCEPT ![1] = copy]

\* Items after lines 112-134 have run on the loop variable: the range loop
\* copies Items[i] into versionedPod, so the assignments to the fields of
\* the copy stay in the copy, while the copy's Containers slice shares its
\* backing array with Items[i].Containers and the writes to its elements
\* reach the list.
ItemsAfterDefault(items, i, copy) ==
    [items EXCEPT ![i] = [items[i] EXCEPT !.Containers = copy.Containers]]

\* apiv1.Convert_v1_Pod_To_core_Pod: field for field.
ConvertFails(pod) == ~pod.Convertible

Convert_v1_Pod_To_core_Pod(pod) ==
    [Name |-> pod.Name, Namespace |-> pod.Namespace,
     SchedulerName |-> pod.SchedulerName, DNSPolicy |-> pod.DNSPolicy,
     RestartPolicy |-> pod.RestartPolicy,
     Containers |-> [i \in 1..Len(pod.Containers) |->
        [TerminationMessagePolicy |-> pod.Containers[i].TerminationMessagePolicy]]]

FieldError(type, field) == [Type |-> type, Field |-> field]

RECURSIVE ContainerErrors(_, _)
ContainerErrors(cs, i) ==
    IF i > Len(cs) THEN <<>>
    ELSE (IF cs[i].TerminationMessagePolicy = ""
          THEN <<FieldError("Required value", "spec.containers.terminationMessagePolicy")>>
          ELSE IF cs[i].TerminationMessagePolicy \notin TerminationMessagePolicies
          THEN <<FieldError("Unsupported value", "spec.containers.terminationMessagePolicy")>>
          ELSE <<>>)
         \o ContainerErrors(cs, i + 1)

EnumErrors(value, allowed, field) ==
    IF value = "" THEN <<FieldError("Required value", field)>>
    ELSE IF value \notin allowed THEN <<FieldError("Unsupported value", field)>>
    ELSE <<>>

\* validation.ValidatePodCreate: all the violations of one pod, in one pass.
ValidatePodCreate(pod) ==
    (IF pod.Name = "" THEN <<FieldError("Required value", "metadata.name")>> ELSE <<>>)
    \o (IF pod.Namespace = "" THEN <<FieldError("Required value", "metadata.namespace")>> ELSE <<>>)
    \o (IF Len(pod.Containers) = 0 THEN <<FieldError("Required value", "spec.containers")>> ELSE <<>>)
    \o ContainerErrors(pod.Containers, 1)
    \o EnumErrors(pod.RestartPolicy, RestartPolicies, "spec.restartPolicy")
    \o EnumErrors(pod.DNSPolicy, DNSPolicies, "spec.dnsPolicy")

ErrStrsFirstOnly(errs) == <<<<errs[1].Type, ": ", errs[1].Field>>>>

\* fmt.Sprintf("%v: %v", err.Type, err.Field) for every violation; the
\* message is these joined by ", ".
ErrStrs(errs) == [k \in 1..Len(errs) |-> <<errs[k].Type, ": ", errs[k].Field>>]

----------------------------------------------------------------------------
(* The call *)

Init ==
    /\ Options \in [PodSpecFile : SingleIds, PodListSpecFile : ListIds]
    /\ schedulerName \in SchedulerNames
    /\ sPod \in {NilPodList, EarlierPodList}
    /\ podBefore = sPod
    /\ pc = "resolve"
    /\ spec = "nil"
    /\ body = "none"
    /\ file = "none"
    /\ response = NoResponse
    /\ versionedPodList = <<>>
    /\ versionedPod = NoPod
    /\ internalPod = NoInternalPod
    /\ idx = 0
    /\ err = NilError
    /\ decoded = <<>>
    /\ resolved = <<>>
    /\ fetches = 0
    /\ trace = <<>>

ReturnErrorPartial(e) ==
    /\ pc' = "returned"
    /\ err' = e
    /\ sPod' = [isNil |-> FALSE, Items |-> SubSeq(versionedPodList, 1, idx - 1)]

\* return err: s.Pod is not touched.
ReturnError(e) ==
    /\ pc' = "returned"
    /\ err' = e
    /\ sPod' = sPod

\* downloadOrRead(urlOrFile) on a URL, lines 159-168 and 176, and the
\* caller's check of its error.
DownloadURL(urlOrFile) ==
    /\ fetches' = fetches + 1
    /\ file' = file
    /\ \/ /\ response' = NoResponse                 \* http.Get fails
          /\ body' = body
          /\ spec' = "nil"
          /\ ReturnError(GetError(urlOrFile))
       \/ \E code \in StatusCodes :
            /\ response' = [got |-> TRUE, StatusCode |-> code]
            /\ body' = "closed"                     \* defer response.Body.Close()
            /\ IF StatusAccepted(code)
               THEN /\ spec' = "body"
                    /\ pc' = "decode"
                    /\ UNCHANGED <<err, sPod>>
               ELSE /\ spec' = "nil"
                    /\ ReturnError(StatusError(urlOrFile, code))

\* downloadOrRead(urlOrFile) on a path, lines 170-176.
OpenFile(urlOrFile) ==
    /\ UNCHANGED <<fetches, response, body>>
    /\ \/ /\ file' = file                           \* os.Open fails
          /\ spec' = "nil"
          /\ ReturnError(OpenError)
       \/ /\ file' = "open"
          /\ spec' = "file"
          /\ pc' = "decode"
          /\ UNCHANGED <<err, sPod>>

downloadOrRead ==
    /\ pc = "resolve"
    /\ LET urlOrFile == SourceId(Options) IN
        /\ resolved' = Append(resolved, urlOrFile)
        /\ trace' = Append(trace, Event("resolve", 0))
        /\ IF IsURL(urlOrFile) THEN DownloadURL(urlOrFile) ELSE OpenFile(urlOrFile)
    /\ UNCHANGED <<Options, schedulerName, podBefore, versionedPodList, versionedPod,
                   internalPod, idx, decoded>>

\* The stream can be read: a response body that was closed cannot
\* (net/http fails every Read after Close), nor can a directory.
Readable ==
    /\ spec = "body" => body = "open"
    /\ spec = "file" => file = "open" /\ ~IsDirectory(SourceId(Options))

\* decoder.Decode, lines 89-97 and 103-107.
Decode ==
    /\ pc = "decode"
    /\ trace' = Append(trace, Event("decode", 0))
    /\ \/ /\ ReturnError(DecodeError)               \* unreadable or malformed
          /\ UNCHANGED <<versionedPodList, decoded, idx>>
       \/ /\ Readable
          /\ \E items \in IF SingleMode(Options)
                          THEN {<<p>> : p \in DecodablePods}
                          ELSE DecodableLists :
                /\ versionedPodList' = items
                /\ decoded' = items
          /\ idx' = 1
          /\ pc' = "default"
          /\ UNCHANGED <<err, sPod>>
    /\ UNCHANGED <<Options, schedulerName, podBefore, spec, body, file, response,
                   versionedPod, internalPod, resolved, fetches>>

\* Lines 111-134: the next element is copied into the loop variable and the
\* copy is defaulted.
Default ==
    /\ pc = "default"
    /\ idx <= Len(versionedPodList)
    /\ versionedPod' = DefaultPod(versionedPodList[idx], schedulerName)
    /\ versionedPodList' = ItemsAfterDefault(versionedPodList, idx, versionedPod')
    /\ trace' = Append(trace, Event("default", idx))
    /\ pc' = "convert"
    /\ UNCHANGED <<Options, schedulerName, podBefore, sPod, spec, body, file, response,
                   internalPod, idx, err, decoded, resolved, fetches>>

ConvertNoAbort ==
    /\ pc = "convert"
    /\ trace' = Append(trace, Event("convert", idx))
    /\ IF ConvertFails(versionedPod)
       THEN /\ err' = ConvertError
            /\ pc' = "validate"
            /\ UNCHANGED <<internalPod, sPod>>
       ELSE /\ internalPod' = Convert_v1_Pod_To_core_Pod(versionedPod)
            /\ pc' = "validate"
            /\ UNCHANGED <<err, sPod>>
    /\ UNCHANGED <<Options, schedulerName, podBefore, spec, body, file, response,
                   versionedPodList, versionedPod, idx, decoded, resolved,
                   fetches>>

\* Lines 137-141.
Convert ==
    /\ pc = "convert"
    /\ trace' = Append(trace, Event("convert", idx))
    /\ IF ConvertFails(versionedPod)
       THEN /\ ReturnError(ConvertError)
            /\ UNCHANGED internalPod
       ELSE /\ internalPod' = Convert_v1_Pod_To_core_Pod(versionedPod)
            /\ pc' = "validate"
            /\ UNCHANGED <<err, sPod>>
    /\ UNCHANGED <<Options, schedulerName, podBefore, spec, body, file, response,
                   versionedPodList, versionedPod, idx, decoded, resolved,
                   fetches>>

\* Lines 142-150.
Validate ==
    /\ pc = "validate"
    /\ trace' = Append(trace, Event("validate", idx))
    /\ LET errs == ValidatePodCreate(internalPod) IN
        IF Len(errs) > 0
        THEN /\ ReturnError(InvalidPodError(ErrStrs(errs)))
             /\ UNCHANGED idx
        ELSE /\ idx' = idx + 1
             /\ pc' = "default"
             /\ UNCHANGED <<err, sPod>>
    /\ UNCHANGED <<Options, schedulerName, podBefore, spec, body, file, response,
                   versionedPodList, versionedPod, internalPod, decoded,
                   resolved, fetches>>

\* Lines 152-153.
Finish ==
    /\ pc = "default"
    /\ idx > Len(versionedPodList)
    /\ sPod' = [isNil |-> FALSE, Items |-> versionedPodList]
    /\ err' = NilError
    /\ pc' = "returned"
    /\ UNCHANGED <<Options, schedulerName, podBefore, spec, body, file, response,
                   versionedPodList, versionedPod, internalPod, idx, decoded,
                   resolved, fetches, trace>>

Next ==
    \/ downloadOrRead
    \/ Decode
    \/ Default
    \/ Convert
    \/ Validate
    \/ Finish

Spec == Init /\ [][Next]_vars

----------------------------------------------------------------------------
(* The defaulting step alone, lines 112-134, applied repeatedly to one pod. *)
(* versionedPodList holds the results of the successive applications.       *)

PolicyValues == {"", "File"}

PodDomain ==
    [Name : {"a"}, Namespace : {"", "ns1"}, SchedulerName : {"", "other"},
     DNSPolicy : {"", "Default", "Bogus"}, RestartPolicy : {"", "Never"},
     Containers : SeqsUpTo({Container(p) : p \in PolicyValues}, MaxContainers),
     Convertible : {TRUE}]

InitDefault ==
    /\ Options = [PodSpecFile |-> <<>>, PodListSpecFile |-> <<>>]
    /\ schedulerName \in SchedulerNames \cup {""}
    /\ sPod = NilPodList
    /\ podBefore = NilPodList
    /\ pc = "defaulting"
    /\ spec = "nil"
    /\ body = "none"
    /\ file = "none"
    /\ response = NoResponse
    /\ versionedPod \in PodDomain
    /\ versionedPodList = <<>>
    /\ decoded = <<versionedPod>>
    /\ internalPod = NoInternalPod
    /\ idx = 0
    /\ err = NilError
    /\ resolved = <<>>
    /\ fetches = 0
    /\ trace = <<>>

ApplyDefault ==
    /\ pc = "defaulting"
    /\ idx < 2
    /\ versionedPod' = DefaultPod(versionedPod, schedulerName)
    /\ versionedPodList' = Append(versionedPodList, versionedPod')
    /\ idx' = idx + 1
    /\ trace' = Append(trace, Event("default", idx + 1))
    /\ UNCHANGED <<Options, schedulerName, podBefore, sPod, pc, spec, body, file, response,
                   internalPod, err, decoded, resolved, fetches>>

NextDefault == ApplyDefault

SpecDefault == InitDefault /\ [][NextDefault]_vars

----------------------------------------------------------------------------
(* Properties *)

Returned == pc = "returned"

Succeeded == pc = "returned" /\ err = NilError

Range(f) == {f[k] : k \in DOMAIN f}

\* The violations the validator finds in a decoded pod once it is defaulted
\* and converted.
ViolationsOf(pod) ==
    ValidatePodCreate(Convert_v1_Pod_To_core_Pod(DefaultPod(pod, schedulerName)))

Rendered(v) == <<v.Type, ": ", v.Field>>

Unset(pod) ==
    /\ pod.Namespace = ""
    /\ pod.SchedulerName = ""
    /\ pod.DNSPolicy = ""
    /\ pod.RestartPolicy = ""
    /\ \E c \in DOMAIN pod.Containers :
          pod.Containers[c].TerminationMessagePolicy = ""

\* C1: after a successful call, a workload that was decoded with empty
\* namespace, scheduler name, DNS policy, restart policy and a container with
\* empty termination-message policy is in s.Pod with namespace "default",
\* the scheduler name of the call, DNS policy ClusterFirst, restart policy
\* Always and that container's policy FallbackToLogsOnError.
C1_DefaultsCarried ==
    Succeeded =>
        \A i \in DOMAIN decoded :
            Unset(decoded[i]) =>
                /\ i \in DOMAIN sPod.Items
                /\ sPod.Items[i].Namespace = "default"
                /\ sPod.Items[i].SchedulerName = schedulerName
                /\ sPod.Items[i].DNSPolicy = DNSClusterFirst
                /\ sPod.Items[i].RestartPolicy = RestartPolicyAlways
                /\ \A c \in DOMAIN decoded[i].Containers :
                      decoded[i].Containers[c].TerminationMessagePolicy = "" =>
                          sPod.Items[i].Containers[c].TerminationMessagePolicy
                              = TerminationMessageFallbackToLogsOnError

C3_AllOrNothing ==
    /\ err # NilError => sPod = podBefore
    /\ sPod # podBefore => pc = "returned" /\ err = NilError

C3_Witness ==
    /\ Returned
    /\ podBefore = EarlierPodList
    /\ err.kind = "invalid"
    /\ idx = 2
    /\ Len(decoded) = 3
    /\ ViolationsOf(decoded[3]) = <<>>
    /\ decoded[3].Convertible

\* C4: when PodSpecFile is not empty only PodSpecFile is ever passed to
\* downloadOrRead, and a successful call stores exactly one pod, the one
\* decoded from it; PodListSpecFile is resolved only when PodSpecFile is
\* empty.
C4_Precedence ==
    /\ Len(Options.PodSpecFile) > 0 =>
          /\ \A k \in DOMAIN resolved : resolved[k] = Options.PodSpecFile
          /\ Succeeded =>
                /\ Len(decoded) = 1
                /\ Len(sPod.Items) = 1
                /\ sPod.Items[1].Name = decoded[1].Name
    /\ (\E k \in DOMAIN resolved : resolved[k] = Options.PodListSpecFile) =>
          Len(Options.PodSpecFile) = 0

C4_Witness ==
    /\ Succeeded
    /\ Len(Options.PodSpecFile) > 0
    /\ Len(Options.PodListSpecFile) > 0
    /\ Len(resolved) = 1

\* C5: a successful call on a list stores a list of the length of the decoded
\* one whose i-th pod has the name of the i-th decoded pod.
C5_OrderPreserved ==
    Succeeded =>
        /\ Len(sPod.Items) = Len(decoded)
        /\ \A i \in DOMAIN decoded : sPod.Items[i].Name = decoded[i].Name

C5_Witness ==
    /\ Succeeded
    /\ ~SingleMode(Options)
    /\ Len(decoded) = 3
    /\ decoded[1].Name = "b"
    /\ decoded[2].Name = "c"
    /\ decoded[3].Name = "a"

Kept(before, after) ==
    /\ before.Namespace # "" => after.Namespace = before.Namespace
    /\ before.SchedulerName # "" => after.SchedulerName = before.SchedulerName
    /\ before.DNSPolicy # "" => after.DNSPolicy = before.DNSPolicy
    /\ before.RestartPolicy # "" => after.RestartPolicy = before.RestartPolicy
    /\ Len(after.Containers) = Len(before.Containers)
    /\ \A c \in DOMAIN before.Containers :
          before.Containers[c].TerminationMessagePolicy # "" =>
              after.Containers[c].TerminationMessagePolicy
                  = before.Containers[c].TerminationMessagePolicy

\* C6: defaulting a pod twice with the same scheduler name gives the pod that
\* defaulting it once gives, and a field that is not empty before defaulting
\* keeps its value.
C6_DefaultIdempotent ==
    pc = "defaulting" =>
        /\ Len(versionedPodList) >= 1 => Kept(decoded[1], versionedPodList[1])
        /\ Len(versionedPodList) >= 2 => versionedPodList[2] = versionedPodList[1]

C6_Witness ==
    /\ pc = "defaulting"
    /\ Len(versionedPodList) = 2
    /\ decoded[1].Namespace # ""
    /\ decoded[1].DNSPolicy = ""
    /\ Len(decoded[1].Containers) = 2
    /\ decoded[1].Containers[1].TerminationMessagePolicy # ""
    /\ decoded[1].Containers[2].TerminationMessagePolicy = ""
    /\ versionedPodList[1] # decoded[1]

NonSuccess(code) == code < 200 \/ code >= 300

\* C7: when the fetch of a URL answers a non-success status, there was one
\* http.Get, downloadOrRead returned no stream and an error with the status
\* code and the URL, and ParseAPISpec returned that error without decoding.
C7_FetchFailureSurfaced ==
    (response.got /\ NonSuccess(response.StatusCode)) =>
        /\ fetches = 1
        /\ spec = "nil"
        /\ Returned
        /\ err = StatusError(SourceId(Options), response.StatusCode)
        /\ IsURL(err.url)
        /\ \A k \in DOMAIN trace : trace[k].stage # "decode"

C7_Witness ==
    /\ Returned
    /\ response.got
    /\ response.StatusCode = 404
    /\ err.code = 404

\* C8: when the decoder is about to read the body of a successful fetch, the
\* body is still open.
C8_BodyOpenAtDecode ==
    (pc = "decode" /\ spec = "body") => body = "open"

\* C9: when ParseAPISpec has returned, no stream that downloadOrRead
\* acquired (response body or file) is still open.
C9_StreamsReleased ==
    Returned => (body # "open" /\ file # "open")

\* The k-th stage of a call that does not fail.
Canonical(k) ==
    IF k = 1 THEN Event("resolve", 0)
    ELSE IF k = 2 THEN Event("decode", 0)
    ELSE Event(CASE (k - 3) % 3 = 0 -> "default"
                 [] (k - 3) % 3 = 1 -> "convert"
                 [] OTHER -> "validate",
               ((k - 3) \div 3) + 1)

FailedStage(kind) ==
    CASE kind \in {"get", "status", "open"} -> "resolve"
      [] kind = "decode" -> "decode"
      [] kind = "convert" -> "convert"
      [] kind = "invalid" -> "validate"
      [] OTHER -> "none"

\* C10: the stages of a call run in the order resolve, decode, then default,
\* convert, validate for each workload in list order; a stage that fails is
\* the last stage that runs, and the call has then returned its error.
C10_StageOrderAndAbort ==
    /\ \A k \in DOMAIN trace : trace[k] = Canonical(k)
    /\ \A k \in DOMAIN trace : trace[k].i <= Len(decoded)
    /\ err # NilError =>
          /\ Returned
          /\ Len(trace) > 0
          /\ trace[Len(trace)].stage = FailedStage(err.kind)

C10_Witness ==
    /\ Returned
    /\ err.kind = "convert"
    /\ idx = 2
    /\ Len(decoded) = 3
    /\ Len(trace) = 7

====
